---- MODULE Spec2Model ----
(***************************************************************************)
(* Face-profile enrollment and verification service.                       *)
(*                                                                         *)
(* The module models                                                       *)
(*   - the REST application of app/ (routers/profiles.py over the          *)
(*     `profile` table and the FaceAnalyzer of core/face_analyzer.py) as   *)
(*     concurrently served requests, one handler frame per client;         *)
(*   - the pure similarity functions (FaceAnalyzer.verify_faces, and       *)
(*     cosine_similarity / aggregate_embeddings of src/multiple.py) as     *)
(*     calls on inputs drawn from bounded sets.                            *)
(*                                                                         *)
(* Floating-point values are modelled exactly: an embedding component is   *)
(* an integer, a ratio is a pair <<n, d>>, and a cosine score is the pair   *)
(* [num, densq] standing for num / sqrt(densq); densq = 0 is the 0/0 that  *)
(* numpy evaluates to NaN.                                                 *)
(***************************************************************************)
EXTENDS Integers, Sequences, FiniteSets, TLC

VARIABLES
    store,   \* rows of table `profile`, in rowid order
    now,     \* the clock datetime.utcnow reads
    req,     \* req[c]: the handler frame of client c's current request
    created, \* the profiles returned by this run's successful creates, in order
    config,  \* app.core.config as read at import: SIMILARITY_THRESHOLD
    call,    \* the last call of a pure similarity function, with its outcome
    boot,    \* the start-ups after the first: their count, the rows the last dropped
    svc      \* the multi-model service of src/multiple.py: its start-up and reply

vars == <<store, now, req, created, config, call, boot, svc>>

----------------------------------------------------------------------------
(* Bounds of the model *)

\* concurrently served requests
\* rows the table may hold before further creates are held back
MaxProfiles == 2
\* largest skip a list request is given
MaxSkip == 1
\* longest embedding handed to the pure similarity functions
MaxLen == 2
\* most models in a mapping handed to aggregate_embeddings
MaxModels == 2
\* components of an embedding of the application's provider (512 for
\* buffalo_l)
EmbeddingLength == 2
\* restarts of the application after its first start-up
MaxBoots == 1
\* largest max_retries initialize_model is called with
MaxRetries == 2

\* the clients whose requests are served concurrently
Clients == {"c1", "c2"}

----------------------------------------------------------------------------
(* Exact arithmetic standing for the floats of the code *)

Abs(x) == IF x < 0 THEN -x ELSE x

RECURSIVE Gcd(_, _)
Gcd(a, b) == IF b = 0 THEN a ELSE Gcd(b, a % b)

\* a / b as a reduced ratio with positive denominator (b # 0)
Ratio(a, b) ==
    LET g == Gcd(Abs(a), Abs(b))
        s == IF b < 0 THEN -1 ELSE 1
    IN  <<(s * a) \div g, (s * b) \div g>>

RatAdd(p, q) == Ratio(p[1] * q[2] + q[1] * p[2], p[2] * q[2])
RatMul(p, q) == Ratio(p[1] * q[1], p[2] * q[2])
RatDiv(p, q) == Ratio(p[1] * q[2], p[2] * q[1])

RECURSIVE Dot(_, _)
\* np.dot of two 1-d arrays of the same length
Dot(u, v) == IF u = <<>> THEN 0 ELSE Head(u) * Head(v) + Dot(Tail(u), Tail(v))

\* np.linalg.norm(u) squared
NormSq(u) == Dot(u, u)

\* the float NaN: 0 / sqrt(0)
NaN == [num |-> 0, densq |-> 0]

\* IEEE comparison score >= n/d of the score num / sqrt(densq); false for NaN
ScoreGE(score, th) ==
    LET l == score.num * th[2]
        r == th[1]
    IN  /\ score.densq # 0
        /\ IF r >= 0
           THEN l >= 0 /\ l * l >= r * r * score.densq
           ELSE l >= 0 \/ l * l <= r * r * score.densq

\* IEEE comparison score > n/d; false for NaN
ScoreGT(score, th) ==
    LET l == score.num * th[2]
        r == th[1]
    IN  /\ score.densq # 0
        /\ IF r >= 0
           THEN l > 0 /\ l * l > r * r * score.densq
           ELSE l >= 0 \/ l * l < r * r * score.densq

----------------------------------------------------------------------------
(* Configuration *)

\* float(os.getenv("SIMILARITY_THRESHOLD", "0.6")): the default, as the ratio 3/5
DefaultThreshold == <<3, 5>>

\* values the environment may set the threshold to
Thresholds == {DefaultThreshold, <<1, 2>>, <<4, 5>>, <<1, 1>>, <<0, 1>>, <<-1, 2>>}

SIMILARITY_THRESHOLD == config.SIMILARITY_THRESHOLD

\* default of the `limit` query parameter
DefaultLimit == 100

----------------------------------------------------------------------------
(* Similarity engine *)

\* outcome of a call: raised = "" when it returned
Returned(fields) == [raised |-> ""] @@ fields
Raised(exc) ==
    [raised |-> exc, is_match |-> FALSE, score |-> NaN, agg |-> <<>>]

\* a score divided by one norm only
Similarity_halfNormalised(u, v) == [num |-> Dot(u, v), densq |-> NormSq(u)]

\* np.dot(u, v) / (np.linalg.norm(u) * np.linalg.norm(v)) for equal lengths:
\* dot / sqrt(|u|^2 * |v|^2); a zero norm gives 0/0, which numpy returns as nan
Similarity(u, v) == [num |-> Dot(u, v), densq |-> NormSq(u) * NormSq(v)]

\* verify_faces deciding with > in place of >=
verify_faces_strict(probe_embedding, ref_embedding) ==
    IF Len(probe_embedding) # Len(ref_embedding)
    THEN Raised("ValueError")
    ELSE LET score == Similarity(probe_embedding, ref_embedding)
         IN  Returned([is_match |-> ScoreGT(score, SIMILARITY_THRESHOLD),
                       score |-> score, agg |-> <<>>])

\* FaceAnalyzer.verify_faces
verify_faces(probe_embedding, ref_embedding) ==
    IF Len(probe_embedding) # Len(ref_embedding)
    THEN Raised("ValueError")   \* np.dot: shapes not aligned
    ELSE LET score == Similarity(probe_embedding, ref_embedding)
         IN  Returned([is_match |-> ScoreGE(score, SIMILARITY_THRESHOLD),
                       score |-> score, agg |-> <<>>])

\* cosine_similarity of the multi-model service
cosine_similarity(u, v) ==
    IF Len(u) # Len(v)
    THEN Raised("ValueError")
    ELSE Returned([is_match |-> FALSE, score |-> Similarity(u, v), agg |-> <<>>])

\* weights.get(name, 0), as a ratio
WeightOf(w, name) == IF name \in DOMAIN w THEN w[name] ELSE <<0, 1>>

RECURSIVE TotalWeight(_, _)
\* sum(weights.get(name, 0) for name in embs)
TotalWeight(embs, w) ==
    IF embs = <<>> THEN <<0, 1>>
    ELSE RatAdd(WeightOf(w, Head(embs).name), TotalWeight(Tail(embs), w))

\* scalar * array
Scale(r, emb) == [i \in 1..Len(emb) |-> RatMul(r, <<emb[i], 1>>)]

\* whether numpy can broadcast 1-d shapes (m,) and (n,) together
Broadcastable(m, n) == m = n \/ m = 1 \/ n = 1

\* a + b for 1-d arrays under numpy broadcasting (shapes broadcastable)
BroadcastAdd(a, b) ==
    LET n == IF Len(a) >= Len(b) THEN Len(a) ELSE Len(b)
        At(x, i) == IF Len(x) = 1 THEN x[1] ELSE x[i]
    IN  [i \in 1..n |-> RatAdd(At(a, i), At(b, i))]

RECURSIVE WeightedSum_last(_, _, _)
\* a sum that keeps only its last term
WeightedSum_last(acc, embs, nw) ==
    IF embs = <<>> THEN Returned([is_match |-> FALSE, score |-> NaN, agg |-> acc])
    ELSE WeightedSum_last(Scale(WeightOf(nw, Head(embs).name), Head(embs).emb),
                          Tail(embs), nw)

RECURSIVE WeightedSum(_, _, _)
\* sum(normalized_weights[name] * embs[name] for name in embs), folded from
\* the left onto acc; acc = <<>> stands for the integer 0 sum() starts from
WeightedSum(acc, embs, nw) ==
    IF embs = <<>> THEN Returned([is_match |-> FALSE, score |-> NaN, agg |-> acc])
    ELSE LET term == Scale(WeightOf(nw, Head(embs).name), Head(embs).emb)
         IN  IF acc = <<>> THEN WeightedSum(term, Tail(embs), nw)
             ELSE IF Broadcastable(Len(acc), Len(term))
                  THEN WeightedSum(BroadcastAdd(acc, term), Tail(embs), nw)
                  ELSE Raised("ValueError")   \* operands could not be broadcast

Names(embs) == {embs[i].name : i \in 1..Len(embs)}

\* the weights aggregate_embeddings works with: the mapping given, or
\* {name: 1.0 / len(embs)} when weights is None
InputWeights(embs, weights) ==
    IF ~weights.given
    THEN [name \in Names(embs) |-> Ratio(1, Len(embs))]
    ELSE weights.w

\* weights used as they are, without the division by their total
NormalizedWeights_raw(embs, w) == [name \in Names(embs) |-> WeightOf(w, name)]

\* normalized_weights, for a total weight that is not zero
NormalizedWeights(embs, w) ==
    [name \in Names(embs) |-> RatDiv(WeightOf(w, name), TotalWeight(embs, w))]

\* the local normalized_weights of a call of aggregate_embeddings, <<>> when
\* the call raises before computing it
normalized_weights(embs, weights) ==
    IF embs = <<>> \/ TotalWeight(embs, InputWeights(embs, weights))[1] = 0
    THEN <<>>
    ELSE NormalizedWeights(embs, InputWeights(embs, weights))

\* an aggregation that falls back to equal weights when the total is zero
aggregate_embeddings_fallback(embs, weights) ==
    IF embs = <<>> THEN Raised("ValueError")
    ELSE LET w == InputWeights(embs, weights)
             equal == InputWeights(embs, [given |-> FALSE, w |-> <<>>])
         IN  IF TotalWeight(embs, w)[1] = 0
             THEN WeightedSum(<<>>, embs, NormalizedWeights(embs, equal))
             ELSE WeightedSum(<<>>, embs, NormalizedWeights(embs, w))

\* aggregate_embeddings; weights.given = FALSE is weights=None
aggregate_embeddings(embs, weights) ==
    IF embs = <<>> THEN Raised("ValueError")
    ELSE LET w == InputWeights(embs, weights)
             total_weight == TotalWeight(embs, w)
         IN  IF total_weight[1] = 0 THEN Raised("ValueError")
             ELSE WeightedSum(<<>>, embs, NormalizedWeights(embs, w))

----------------------------------------------------------------------------
(* Uploaded files and the embedding provider (InsightFace) *)

\* "garbage": bytes Image.open rejects; "blank": an RGB image without a face;
\* the others are RGB images of a face
FaceFiles == {"faceA", "faceB"}
Files == {"garbage", "blank"} \cup FaceFiles

\* Image.open(BytesIO(...)) returns an image
Decodable(file) == file # "garbage"

\* faces[0].embedding of self.face_app.get(img_bgr); every embedding of the
\* configured model has the same length
ProviderEmbedding(file) ==
    CASE file = "faceA" ->
           [i \in 1..EmbeddingLength |-> IF i = 1 THEN 3 ELSE IF i = 2 THEN 4 ELSE 0]
      [] file = "faceB" ->
           [i \in 1..EmbeddingLength |-> IF i = 1 THEN 3 ELSE 0]

\* self.face_app.get(img_bgr): the detected faces
ProviderFaces(file) ==
    IF file \in FaceFiles THEN <<[embedding |-> ProviderEmbedding(file)]>> ELSE <<>>

\* the description analyze_face formats from the first face's bbox and kps
Describe(file) ==
    CASE file = "faceA" -> "Face dimensions: 1.25 height/width ratio. ..."
      [] file = "faceB" -> "Face dimensions: 1.40 height/width ratio. ..."

\* FaceAnalyzer.get_face_embedding; <<>> is None
get_face_embedding(file) ==
    LET faces == ProviderFaces(file)
    IN  IF faces = <<>> THEN <<>> ELSE faces[1].embedding

\* an analysis that drops the last component of the embedding
analyze_face_truncating(file) ==
    LET faces == ProviderFaces(file)
    IN  IF faces = <<>>
        THEN [description |-> "No face detected in the image.", embedding |-> <<>>]
        ELSE [description |-> Describe(file),
              embedding |-> SubSeq(faces[1].embedding, 1, EmbeddingLength - 1)]

\* FaceAnalyzer.analyze_face; embedding <<>> is None
analyze_face(file) ==
    LET faces == ProviderFaces(file)
    IN  IF faces = <<>>
        THEN [description |-> "No face detected in the image.", embedding |-> <<>>]
        ELSE [description |-> Describe(file), embedding |-> faces[1].embedding]

----------------------------------------------------------------------------
(* Profile store: table `profile` behind a SQLModel session on SQLite *)

\* a Profile not loaded / not set
NoProfile == [id |-> 0, description |-> "", embedding |-> <<>>, created_at |-> 0]

StoredIds == {store[i].id : i \in 1..Len(store)}

\* an id taken from the row count read before another insert landed
NextId_stale(rows) == IF rows = <<>> THEN 1 ELSE Len(rows)

\* the rowid SQLite gives an INSERT with id NULL: one more than the largest
NextId(rows) ==
    IF rows = <<>> THEN 1
    ELSE 1 + CHOOSE m \in {rows[i].id : i \in 1..Len(rows)} :
                 \A i \in 1..Len(rows) : rows[i].id <= m

\* a lookup that returns the latest row whenever the id exists
SessionGet_last(rows, profile_id) ==
    IF \E i \in 1..Len(rows) : rows[i].id = profile_id
    THEN rows[Len(rows)]
    ELSE NoProfile

\* session.get(Profile, profile_id): the row, or NoProfile for None
SessionGet(rows, profile_id) ==
    IF \E i \in 1..Len(rows) : rows[i].id = profile_id
    THEN rows[CHOOSE i \in 1..Len(rows) : rows[i].id = profile_id]
    ELSE NoProfile

\* a query that drops the offset
SelectOffsetLimit_noOffset(rows, skip, limit) ==
    SubSeq(rows, 1, IF limit < Len(rows) THEN limit ELSE Len(rows))

\* select(Profile).offset(skip).limit(limit) on SQLite: a scan of the table
\* in rowid order, skipping `skip` rows and returning at most `limit`
SelectOffsetLimit(rows, skip, limit) ==
    LET last == IF skip + limit < Len(rows) THEN skip + limit ELSE Len(rows)
    IN  SubSeq(rows, skip + 1, last)

----------------------------------------------------------------------------
(* Requests served by the application (app/routers/profiles.py) *)

NoResponse ==
    [status |-> 0, detail |-> "", body |-> "", profile |-> NoProfile,
     profiles |-> <<>>, is_match |-> FALSE, score |-> NaN]

\* raise HTTPException(status_code, detail), or the 500 of an unhandled exception
ErrorResponse(status, detail) ==
    [NoResponse EXCEPT !.status = status, !.detail = detail, !.body = "error"]

\* response_model=ProfileRead
ProfileResponse(row) ==
    [NoResponse EXCEPT !.status = 200, !.body = "ProfileRead", !.profile = row]

\* response_model=List[ProfileRead]
ProfilesResponse(rows) ==
    [NoResponse EXCEPT !.status = 200, !.body = "List[ProfileRead]", !.profiles = rows]

\* response_model=VerificationResult
VerificationResponse(out) ==
    [NoResponse EXCEPT !.status = 200, !.body = "VerificationResult",
                       !.is_match = out.is_match, !.score = out.score]

\* a handler frame: the request's inputs, the handler's locals and position
IdleFrame ==
    [pc |-> "idle", line |-> "",
     endpoint |-> "", file |-> "", profile_id |-> 0,
     skip |-> 0, limit |-> 0, decoded |-> FALSE, calls |-> 0,
     profile |-> NoProfile, embedding |-> <<>>, response |-> NoResponse]

Settled(c) == req[c].pc \in {"idle", "done"}

Done(frame, response) == [frame EXCEPT !.pc = "done", !.response = response]

\* create requests accepted and not yet answered
CreatesInFlight ==
    Cardinality({c \in Clients : req[c].endpoint = "create_profile" /\ ~Settled(c)})

ProfileIds == 1..(MaxProfiles + 1)

----------------------------------------------------------------------------
(* Routing *)

\* API_V1_STR = "/api/v1", as path segments
API_V1_STR == <<"api", "v1">>

\* a template segment that is a path parameter, and a URL segment that is an
\* integer (its value is the frame's profile_id)
Param == "{profile_id}"
IntSegment == "<int>"

\* the router's routes, in the order of their decorators
Routes ==
    <<[method |-> "POST", path |-> <<"profiles">>, endpoint |-> "create_profile"],
      [method |-> "GET", path |-> <<"profiles", Param>>, endpoint |-> "get_profile"],
      [method |-> "GET", path |-> <<"profiles">>, endpoint |-> "list_profiles"],
      [method |-> "POST", path |-> <<"verify", Param>>, endpoint |-> "verify_face"]>>

\* the route's path regex matches the URL: a parameter matches any one segment
Matches(template, path) ==
    /\ Len(template) = Len(path)
    /\ \A i \in 1..Len(path) : template[i] = Param \/ template[i] = path[i]

\* profile_id: int accepts the segment bound to it
ParamsValid(template, path) ==
    \A i \in 1..Len(path) : template[i] = Param => path[i] = IntSegment

RECURSIVE DispatchFrom(_, _, _, _)
\* the router's scan from route k on: the first route matching path and
\* method serves the request (422 when its parameter does not validate); a
\* path that only matched under another method is answered 405, no match 404
DispatchFrom(k, method, path, partial) ==
    IF k > Len(Routes) THEN (IF partial THEN "405" ELSE "404")
    ELSE LET template == API_V1_STR \o Routes[k].path
         IN  IF ~Matches(template, path)
             THEN DispatchFrom(k + 1, method, path, partial)
             ELSE IF Routes[k].method # method
                  THEN DispatchFrom(k + 1, method, path, TRUE)
                  ELSE IF ParamsValid(template, path) THEN Routes[k].endpoint
                       ELSE "422"

Dispatch(method, path) == DispatchFrom(1, method, path, FALSE)

\* the path the test suite and the frontend client post verifications to
ClientVerifyPath == API_V1_STR \o <<"profiles", "verify", IntSegment>>

\* the request lines clients send, each under the text a frame keeps of it:
\* the four the routes are declared for, the clients' verification line, a
\* GET on the verification route and a GET whose parameter segment is not
\* an integer
Lines ==
    {[text |-> "POST /api/v1/profiles",
      method |-> "POST", path |-> API_V1_STR \o <<"profiles">>],
     [text |-> "GET /api/v1/profiles/<int>",
      method |-> "GET", path |-> API_V1_STR \o <<"profiles", IntSegment>>],
     [text |-> "GET /api/v1/profiles",
      method |-> "GET", path |-> API_V1_STR \o <<"profiles">>],
     [text |-> "POST /api/v1/verify/<int>",
      method |-> "POST", path |-> API_V1_STR \o <<"verify", IntSegment>>],
     [text |-> "POST /api/v1/profiles/verify/<int>",
      method |-> "POST", path |-> ClientVerifyPath],
     [text |-> "GET /api/v1/verify/<int>",
      method |-> "GET", path |-> API_V1_STR \o <<"verify", IntSegment>>],
     [text |-> "GET /api/v1/profiles/verify",
      method |-> "GET", path |-> API_V1_STR \o <<"profiles", "verify">>]}

Targets ==
    {Routes[k].endpoint : k \in 1..Len(Routes)} \cup {"404", "405", "422"}

\* the lines by what the router does with them
LinesByTarget ==
    [target \in Targets |->
        {line \in Lines : Dispatch(line.method, line.path) = target}]

\* request lines the router hands to the given endpoint (or answers itself
\* with the given status)
RequestLines(target) == LinesByTarget[target]

\* the frame of a request that has just arrived
Arrived(line) == [IdleFrame EXCEPT !.line = line.text]

\* the request line a frame was opened for
LineOf(f) == CHOOSE line \in Lines : line.text = f.line

HasId(path) == \E i \in 1..Len(path) : path[i] = IntSegment
Skips == 0..MaxSkip
\* a list request asks for one row, or leaves limit at its default
Limits == {1, DefaultLimit}

\* what no request handler writes
unchangedPure == UNCHANGED <<config, call, boot, svc>>

\* POST /profiles arrives: the handler starts and awaits file.read()
PostProfiles(c) ==
    /\ Settled(c)
    /\ Len(store) + CreatesInFlight < MaxProfiles
    /\ \E line \in RequestLines("create_profile"), file \in Files :
          req' = [req EXCEPT ![c] =
                    [Arrived(line) EXCEPT !.pc = "decode",
                                          !.endpoint = "create_profile",
                                          !.file = file]]
    /\ UNCHANGED <<store, now, created>>
    /\ unchangedPure

\* create_profile: Image.open in its try block
CreateDecode(c) ==
    /\ req[c].endpoint = "create_profile" /\ req[c].pc = "decode"
    /\ req' = [req EXCEPT ![c] =
                 IF Decodable(req[c].file)
                 THEN [@ EXCEPT !.pc = "analyze", !.decoded = TRUE]
                 ELSE Done(@, ErrorResponse(400, "Invalid image file"))]
    /\ UNCHANGED <<store, now, created>>
    /\ unchangedPure

\* create_profile without the None check on the embedding
CreateAnalyze_unchecked(c) ==
    /\ req[c].endpoint = "create_profile" /\ req[c].pc = "analyze"
    /\ LET out == analyze_face(req[c].file)
       IN  req' = [req EXCEPT ![c] =
                     [@ EXCEPT !.calls = @ + 1,
                               !.pc = "persist",
                               !.embedding = out.embedding,
                               !.profile = [id |-> 0,
                                            description |-> out.description,
                                            embedding |-> out.embedding,
                                            created_at |-> now]]]
    /\ now' = now + 1
    /\ UNCHANGED <<store, created>>
    /\ unchangedPure

\* create_profile calling analyze_face a second time when the first call
\* found no face
CreateAnalyze_retry(c) ==
    /\ req[c].endpoint = "create_profile" /\ req[c].pc = "analyze"
    /\ LET out == analyze_face(req[c].file)
           called == [req[c] EXCEPT !.calls = @ + 1]
       IN  IF out.embedding = <<>>
           THEN /\ req' = [req EXCEPT ![c] =
                            IF called.calls < 2 THEN called
                            ELSE Done(called,
                                      ErrorResponse(400, "No face detected in image"))]
                /\ now' = now
           ELSE /\ req' = [req EXCEPT ![c] =
                            [called EXCEPT
                               !.pc = "persist",
                               !.embedding = out.embedding,
                               !.profile = [id |-> 0,
                                            description |-> out.description,
                                            embedding |-> out.embedding,
                                            created_at |-> now]]]
                /\ now' = now + 1
    /\ UNCHANGED <<store, created>>
    /\ unchangedPure

\* create_profile: analyze_face, the None check, and Profile(...), whose
\* created_at default reads the clock
CreateAnalyze(c) ==
    /\ req[c].endpoint = "create_profile" /\ req[c].pc = "analyze"
    /\ LET out == analyze_face(req[c].file)
           called == [req[c] EXCEPT !.calls = @ + 1]
       IN  IF out.embedding = <<>>
           THEN /\ req' = [req EXCEPT ![c] =
                            Done(called, ErrorResponse(400, "No face detected in image"))]
                /\ now' = now
           ELSE /\ req' = [req EXCEPT ![c] =
                            [called EXCEPT
                               !.pc = "persist",
                               !.embedding = out.embedding,
                               !.profile = [id |-> 0,
                                            description |-> out.description,
                                            embedding |-> out.embedding,
                                            created_at |-> now]]]
                /\ now' = now + 1
    /\ UNCHANGED <<store, created>>
    /\ unchangedPure

\* create_profile: session.add, session.commit, session.refresh, return
CreatePersist(c) ==
    /\ req[c].endpoint = "create_profile" /\ req[c].pc = "persist"
    /\ LET row == [req[c].profile EXCEPT !.id = NextId(store)]
       IN  /\ store' = Append(store, row)
           /\ created' = Append(created, row)
           /\ req' = [req EXCEPT ![c] =
                        Done([@ EXCEPT !.profile = row], ProfileResponse(row))]
    /\ now' = now
    /\ unchangedPure

\* GET /profiles/{profile_id}: get_profile
GetProfile(c) ==
    /\ Settled(c)
    /\ \E line \in RequestLines("get_profile"), profile_id \in ProfileIds :
          LET profile == SessionGet(store, profile_id)
              frame == [Arrived(line) EXCEPT !.endpoint = "get_profile",
                                         !.profile_id = profile_id,
                                         !.profile = profile]
          IN  req' = [req EXCEPT ![c] =
                        IF profile = NoProfile
                        THEN Done(frame, ErrorResponse(404, "Profile not found"))
                        ELSE Done(frame, ProfileResponse(profile))]
    /\ UNCHANGED <<store, now, created>>
    /\ unchangedPure

\* GET /profiles?skip&limit: list_profiles
ListProfiles(c) ==
    /\ Settled(c)
    /\ \E line \in RequestLines("list_profiles"), skip \in Skips, limit \in Limits :
          req' = [req EXCEPT ![c] =
                    Done([Arrived(line) EXCEPT !.endpoint = "list_profiles",
                                           !.skip = skip, !.limit = limit],
                         ProfilesResponse(SelectOffsetLimit(store, skip, limit)))]
    /\ UNCHANGED <<store, now, created>>
    /\ unchangedPure

\* verify_face without the 404 check after the lookup
VerifyLookup_unchecked(c) ==
    /\ Settled(c)
    /\ \E line \in RequestLines("verify_face"), profile_id \in ProfileIds,
          file \in Files :
          req' = [req EXCEPT ![c] =
                    [Arrived(line) EXCEPT !.endpoint = "verify_face",
                                      !.profile_id = profile_id, !.file = file,
                                      !.pc = "decode",
                                      !.profile = SessionGet(store, profile_id)]]
    /\ UNCHANGED <<store, now, created>>
    /\ unchangedPure

\* POST /verify/{profile_id} arrives: verify_face runs session.get and the
\* 404 check, then awaits file.read()
VerifyLookup(c) ==
    /\ Settled(c)
    /\ \E line \in RequestLines("verify_face"), profile_id \in ProfileIds,
          file \in Files :
          LET profile == SessionGet(store, profile_id)
              frame == [Arrived(line) EXCEPT !.endpoint = "verify_face",
                                         !.profile_id = profile_id, !.file = file]
          IN  req' = [req EXCEPT ![c] =
                        IF profile = NoProfile
                        THEN Done(frame, ErrorResponse(404, "Profile not found"))
                        ELSE [frame EXCEPT !.pc = "decode", !.profile = profile]]
    /\ UNCHANGED <<store, now, created>>
    /\ unchangedPure

\* verify_face: await file.read() and Image.open in its try block
VerifyDecode(c) ==
    /\ req[c].endpoint = "verify_face" /\ req[c].pc = "decode"
    /\ req' = [req EXCEPT ![c] =
                 IF Decodable(req[c].file)
                 THEN [@ EXCEPT !.pc = "extract", !.decoded = TRUE]
                 ELSE Done(@, ErrorResponse(400, "Invalid image file"))]
    /\ UNCHANGED <<store, now, created>>
    /\ unchangedPure

\* verify_face without the None check on the probe embedding
VerifyExtract_unchecked(c) ==
    /\ req[c].endpoint = "verify_face" /\ req[c].pc = "extract"
    /\ req' = [req EXCEPT ![c] =
                 [@ EXCEPT !.calls = @ + 1, !.pc = "compare",
                           !.embedding = get_face_embedding(req[c].file)]]
    /\ UNCHANGED <<store, now, created>>
    /\ unchangedPure

\* verify_face: get_face_embedding and the None check
VerifyExtract(c) ==
    /\ req[c].endpoint = "verify_face" /\ req[c].pc = "extract"
    /\ LET probe_embedding == get_face_embedding(req[c].file)
           called == [req[c] EXCEPT !.calls = @ + 1]
       IN  req' = [req EXCEPT ![c] =
                     IF probe_embedding = <<>>
                     THEN Done(called, ErrorResponse(400, "No face detected in image"))
                     ELSE [called EXCEPT !.pc = "compare",
                                         !.embedding = probe_embedding]]
    /\ UNCHANGED <<store, now, created>>
    /\ unchangedPure

\* verify_face that overwrites the stored embedding with the probe's
VerifyCompare_updates(c) ==
    /\ req[c].endpoint = "verify_face" /\ req[c].pc = "compare"
    /\ LET out == verify_faces(req[c].embedding, req[c].profile.embedding)
       IN  req' = [req EXCEPT ![c] =
                     IF out.raised # ""
                     THEN Done(@, ErrorResponse(500, "Internal Server Error"))
                     ELSE Done(@, VerificationResponse(out))]
    /\ store' = [i \in 1..Len(store) |->
                   IF store[i].id = req[c].profile_id
                   THEN [store[i] EXCEPT !.embedding = req[c].embedding]
                   ELSE store[i]]
    /\ UNCHANGED <<now, created>>
    /\ unchangedPure

\* verify_face: return face_analyzer.verify_faces(probe, profile.embedding)
VerifyCompare(c) ==
    /\ req[c].endpoint = "verify_face" /\ req[c].pc = "compare"
    /\ LET out == verify_faces(req[c].embedding, req[c].profile.embedding)
       IN  req' = [req EXCEPT ![c] =
                     IF out.raised # ""
                     THEN Done(@, ErrorResponse(500, "Internal Server Error"))
                     ELSE Done(@, VerificationResponse(out))]
    /\ UNCHANGED <<store, now, created>>
    /\ unchangedPure

\* a request line no route serves: the router answers it without
\* calling a handler; a POST carries the upload of a face image
Unrouted(c) ==
    /\ Settled(c)
    /\ \E status \in {"404", "405", "422"} :
        \E line \in RequestLines(status) :
        \E profile_id \in (IF line.path = ClientVerifyPath THEN ProfileIds
                            ELSE IF HasId(line.path) THEN {1} ELSE {0}) :
          LET frame == [Arrived(line) EXCEPT
                           !.profile_id = profile_id,
                           !.file = IF line.method = "POST" THEN "faceA" ELSE ""]
          IN  req' = [req EXCEPT ![c] =
                        Done(frame,
                             CASE status = "404" -> ErrorResponse(404, "Not Found")
                               [] status = "405" -> ErrorResponse(405, "Method Not Allowed")
                               [] status = "422" -> ErrorResponse(422, "validation error"))]
    /\ UNCHANGED <<store, now, created>>
    /\ unchangedPure

\* no upload
NoUpload == [kind |-> "", id |-> "", sees |-> <<>>]

\* no reply of the multi-model service
NoReply ==
    [endpoint |-> "", file1 |-> NoUpload, file2 |-> NoUpload, status |-> 0, detail |-> "",
     analysis |-> 0, models_used |-> <<>>, aggregated |-> <<>>,
     embeddings |-> <<>>, score |-> NaN, same_person_likely |-> FALSE]

\* the multi-model service not imported
NoService ==
    [phase |-> "off", preferred |-> <<>>, max_retries |-> 0, k |-> 0,
     attempts |-> <<>>, tries |-> <<>>, apps |-> <<>>, reply |-> NoReply]

\* the application after start-up: an empty table, no request in progress,
\* the threshold at its default
NoCall ==
    [fn |-> "", u |-> <<>>, v |-> <<>>, embs |-> <<>>,
     weights |-> [given |-> FALSE, w |-> <<>>], nw |-> <<>>,
     out |-> [raised |-> "", is_match |-> FALSE, score |-> NaN, agg |-> <<>>]]

Init ==
    /\ store = <<>>
    /\ now = 0
    /\ req = [c \in Clients |-> IdleFrame]
    /\ created = <<>>
    /\ config = [SIMILARITY_THRESHOLD |-> DefaultThreshold]
    /\ call = NoCall
    /\ boot = [count |-> 0, dropped |-> <<>>]
    /\ svc = NoService

\* a step of the handler serving client c, its arrival included
ClientStep(c) ==
    \/ PostProfiles(c)
    \/ CreateDecode(c)
    \/ CreateAnalyze(c)
    \/ CreatePersist(c)
    \/ GetProfile(c)
    \/ ListProfiles(c)
    \/ VerifyLookup(c)
    \/ VerifyDecode(c)
    \/ VerifyExtract(c)
    \/ VerifyCompare(c)

\* one run of the application, from its start-up on, serving the requests
\* its routes are declared for
Next == \E c \in Clients : ClientStep(c)

Spec == Init /\ [][Next]_vars

----------------------------------------------------------------------------
(* Restarts *)

\* a start-up that leaves the tables as it finds them
Startup_keep ==
    /\ boot.count < MaxBoots
    /\ boot' = [count |-> boot.count + 1, dropped |-> store]
    /\ req' = [c \in Clients |-> IF Settled(c) THEN req[c] ELSE IdleFrame]
    /\ UNCHANGED <<store, created, now, config, call, svc>>

\* the process is restarted: the requests in progress are lost with it, and
\* on_startup runs create_db_and_tables, which drops and recreates the tables
Startup ==
    /\ boot.count < MaxBoots
    /\ boot' = [count |-> boot.count + 1, dropped |-> store]
    /\ store' = <<>>
    /\ created' = <<>>
    /\ req' = [c \in Clients |-> IF Settled(c) THEN req[c] ELSE IdleFrame]
    /\ UNCHANGED <<now, config, call, svc>>

\* the client whose requests are followed across restarts and over the
\* request lines no route serves
Restarter == "c1"

NextRestart ==
    \/ ClientStep(Restarter)
    \/ Unrouted(Restarter)
    \/ Startup

SpecRestart == Init /\ [][NextRestart]_vars

----------------------------------------------------------------------------
(* Calls of the similarity functions on inputs drawn from bounded sets *)

CompVals == {-3, 0, 3, 4}
Vectors == UNION {[1..n -> CompVals] : n \in 1..MaxLen}

ModelNames == {"buffalo_l", "buffalo_s", "antelopev2"}
AggVectors ==
    UNION {{[i \in 1..n |-> 2 * i], [i \in 1..n |-> 6 - 2 * i]} : n \in 1..MaxLen}

\* a dict name -> embedding, in insertion order
EmbsInputs ==
    {e \in UNION {[1..n -> [name : ModelNames, emb : AggVectors]] : n \in 0..MaxModels} :
        \A i, j \in 1..Len(e) : e[i].name = e[j].name => i = j}

WeightVals == {<<-1, 1>>, <<0, 1>>, <<1, 1>>, <<2, 1>>}
WeightsInputs ==
    {[given |-> FALSE, w |-> <<>>]} \cup
    {[given |-> TRUE, w |-> w] : w \in UNION {[S -> WeightVals] : S \in SUBSET ModelNames}}

unchangedApp == UNCHANGED <<store, now, req, created, config, boot, svc>>

CallVerifyFaces ==
    /\ call.fn = ""
    /\ \E u, v \in Vectors :
          call' = [NoCall EXCEPT !.fn = "verify_faces", !.u = u, !.v = v,
                                 !.out = verify_faces(u, v)]
    /\ unchangedApp

CallCosineSimilarity ==
    /\ call.fn = ""
    /\ \E u, v \in Vectors :
          call' = [NoCall EXCEPT !.fn = "cosine_similarity", !.u = u, !.v = v,
                                 !.out = cosine_similarity(u, v)]
    /\ unchangedApp

\* src/multiple.py does not read app.core.config: its calls are explored
\* under the default configuration only
CallAggregateEmbeddings ==
    /\ call.fn = ""
    /\ config.SIMILARITY_THRESHOLD = DefaultThreshold
    /\ \E embs \in EmbsInputs, weights \in WeightsInputs :
          call' = [NoCall EXCEPT !.fn = "aggregate_embeddings", !.embs = embs,
                                 !.weights = weights,
                                 !.nw = normalized_weights(embs, weights),
                                 !.out = aggregate_embeddings(embs, weights)]
    /\ unchangedApp

InitPure ==
    /\ store = <<>>
    /\ now = 0
    /\ req = [c \in Clients |-> IdleFrame]
    /\ created = <<>>
    /\ config \in [SIMILARITY_THRESHOLD : Thresholds]
    /\ call = NoCall
    /\ boot = [count |-> 0, dropped |-> <<>>]
    /\ svc = NoService

NextPure ==
    \/ CallVerifyFaces
    \/ CallCosineSimilarity
    \/ CallAggregateEmbeddings

SpecPure == InitPure /\ [][NextPure]_vars

----------------------------------------------------------------------------
(* The multi-model service of src/multiple.py *)

\* what a model does with an image: returns a face, returns no face, raises
Outcomes == {"face", "noface", "error"}

\* an upload: its content type is image/* or not ("text"), its bytes decode
\* or not ("garbage"); id names the picture, sees what each model makes of it
Blind == [name \in ModelNames |-> "noface"]
ImageUploads ==
    {[kind |-> "image", id |-> id, sees |-> sees] :
        id \in {"A", "B"}, sees \in [ModelNames -> Outcomes]}
Uploads ==
    {[kind |-> "text", id |-> "A", sees |-> Blind],
     [kind |-> "garbage", id |-> "A", sees |-> Blind]} \cup ImageUploads

\* the uploads compare_faces is given: bytes that do not decode, and
\* pictures every model treats alike
CompareUploads ==
    {u \in Uploads : u.kind = "garbage" \/
        (u.kind = "image" /\ \A m, n \in ModelNames : u.sees[m] = u.sees[n])}

\* faces[0].embedding of model name for picture id
MultiEmbedding(id, name) ==
    LET first == IF id = "A" THEN 3 ELSE 4
        second == CASE name = "buffalo_l" -> IF id = "A" THEN 4 ELSE 0
                    [] name = "buffalo_s" -> IF id = "A" THEN 3 ELSE -3
                    [] name = "antelopev2" -> IF id = "A" THEN 0 ELSE 3
    IN  [i \in 1..EmbeddingLength |-> IF i = 1 THEN first ELSE IF i = 2 THEN second ELSE 0]

RECURSIVE EmbeddingsOf_abort(_, _)
\* the loop without its try: the first model that raises ends it
EmbeddingsOf_abort(models, upload) ==
    IF models = <<>> THEN <<>>
    ELSE LET name == Head(models)
         IN  IF upload.sees[name] = "error" THEN <<>>
             ELSE IF upload.sees[name] = "face"
             THEN <<[name |-> name, emb |-> MultiEmbedding(upload.id, name)]>>
                      \o EmbeddingsOf_abort(Tail(models), upload)
             ELSE EmbeddingsOf_abort(Tail(models), upload)

RECURSIVE EmbeddingsOf(_, _)
\* the loop of get_embeddings over apps.items(): a model that raises or
\* returns no face adds nothing
EmbeddingsOf(models, upload) ==
    IF models = <<>> THEN <<>>
    ELSE LET name == Head(models)
             rest == EmbeddingsOf(Tail(models), upload)
         IN  IF upload.sees[name] = "face"
             THEN <<[name |-> name, emb |-> MultiEmbedding(upload.id, name)]>> \o rest
             ELSE rest

\* get_embeddings
get_embeddings(models, upload) ==
    LET embs == EmbeddingsOf(models, upload)
    IN  IF embs = <<>> THEN [raised |-> "ValueError", embs |-> <<>>]
        ELSE [raised |-> "", embs |-> embs]

\* analyze_face of the service: any exception inside becomes
\* HTTPException(status_code=422)
multi_analyze_face(models, upload) ==
    LET got == get_embeddings(models, upload)
        failed == [raised |-> "HTTPException", status |-> 422,
                   embs |-> <<>>, aggregated |-> <<>>]
    IN  IF got.raised # "" THEN failed
        ELSE LET agg == aggregate_embeddings(got.embs, [given |-> FALSE, w |-> <<>>])
             IN  IF agg.raised # "" THEN failed
                 ELSE [raised |-> "", status |-> 0,
                       embs |-> got.embs, aggregated |-> agg.agg]

\* the exception classes the service meets; all derive from Exception, so
\* `except Exception` catches each of them
Exceptions == {"ValueError", "HTTPException", "UnidentifiedImageError"}
CaughtByExceptException(exc) == exc \in Exceptions

\* Image.open(BytesIO(image_data))
ImageOpen(upload) ==
    IF upload.kind = "image" THEN [raised |-> ""]
    ELSE [raised |-> "UnidentifiedImageError"]

RECURSIVE NamesInOrder(_)
NamesInOrder(embs) ==
    IF embs = <<>> THEN <<>> ELSE <<Head(embs).name>> \o NamesInOrder(Tail(embs))

\* create_profile of the service
create_profile(models, upload) ==
    LET reply == [NoReply EXCEPT !.endpoint = "create_profile", !.file1 = upload]
    IN  IF upload.kind = "text"
        THEN [reply EXCEPT !.status = 400, !.detail = "File must be an image"]
        ELSE IF CaughtByExceptException(ImageOpen(upload).raised)
        THEN [reply EXCEPT !.status = 500, !.detail = "Processing failed"]
        ELSE LET profile_data == multi_analyze_face(models, upload)
             IN  IF CaughtByExceptException(profile_data.raised)
                 THEN [reply EXCEPT !.status = 500, !.detail = "Processing failed",
                                    !.analysis = profile_data.status]
                 ELSE [reply EXCEPT !.status = 200,
                                    !.models_used = NamesInOrder(profile_data.embs),
                                    !.aggregated = profile_data.aggregated]

RECURSIVE CommonDenominator(_)
CommonDenominator(agg) ==
    IF agg = <<>> THEN 1 ELSE Head(agg)[2] * CommonDenominator(Tail(agg))

\* a vector of ratios scaled by a positive integer to integer components; the
\* cosine similarity does not change under a positive scaling
ToIntegers(agg) ==
    [i \in 1..Len(agg) |-> agg[i][1] * (CommonDenominator(agg) \div agg[i][2])]

\* the literal 0.6 of compare_faces
CompareThreshold == <<3, 5>>

\* compare_faces of the service
compare_faces(models, upload1, upload2) ==
    LET reply == [NoReply EXCEPT !.endpoint = "compare_faces",
                                 !.file1 = upload1, !.file2 = upload2]
        failed == [reply EXCEPT !.status = 500, !.detail = "Comparison failed"]
    IN  IF \/ CaughtByExceptException(ImageOpen(upload1).raised)
           \/ CaughtByExceptException(ImageOpen(upload2).raised)
        THEN failed
        ELSE LET profile1 == multi_analyze_face(models, upload1)
                 profile2 == multi_analyze_face(models, upload2)
             IN  IF CaughtByExceptException(profile1.raised)
                 THEN [failed EXCEPT !.analysis = profile1.status]
                 ELSE IF CaughtByExceptException(profile2.raised)
                 THEN [failed EXCEPT !.analysis = profile2.status]
                 ELSE LET sim == cosine_similarity(ToIntegers(profile1.aggregated),
                                                   ToIntegers(profile2.aggregated))
                      IN  IF CaughtByExceptException(sim.raised) THEN failed
                          ELSE [reply EXCEPT
                                  !.status = 200,
                                  !.models_used = NamesInOrder(profile1.embs),
                                  !.score = sim.score,
                                  !.same_person_likely =
                                      ScoreGT(sim.score, CompareThreshold)]

\* the service's start-up and requests leave the REST application alone
unchangedRest == UNCHANGED <<store, now, req, created, config, call, boot>>

\* the model start-up is at, and whether initialize_model may try it again
Initializing ==
    /\ svc.phase = "init"
    /\ svc.k <= Len(svc.preferred)

\* the call of initialize_model returns: fa (model = TRUE) or None
Returns(outcomes, model) ==
    [svc EXCEPT
       !.tries = Append(@, [name |-> svc.preferred[svc.k],
                            outcomes |-> outcomes, model |-> model]),
       !.apps = IF model THEN Append(@, svc.preferred[svc.k]) ELSE @,
       !.k = @ + 1,
       !.attempts = <<>>]

\* initialize_model: FaceAnalysis(...) and prepare succeed; return fa
AttemptSucceeds ==
    /\ Initializing
    /\ Len(svc.attempts) < svc.max_retries
    /\ svc' = Returns(Append(svc.attempts, TRUE), TRUE)
    /\ unchangedRest

\* an initialize_model that gives up one failure later than max_retries
AttemptFails_late ==
    /\ Initializing
    /\ Len(svc.attempts) < svc.max_retries + 1
    /\ LET outcomes == Append(svc.attempts, FALSE)
       IN  svc' = IF Len(outcomes) = svc.max_retries + 1
                  THEN Returns(outcomes, FALSE)
                  ELSE [svc EXCEPT !.attempts = outcomes]
    /\ unchangedRest

\* initialize_model: the attempt raises; return None when it was the last
\* (attempt == max_retries - 1), else go round the loop
AttemptFails ==
    /\ Initializing
    /\ Len(svc.attempts) < svc.max_retries
    /\ LET outcomes == Append(svc.attempts, FALSE)
       IN  svc' = IF Len(outcomes) = svc.max_retries
                  THEN Returns(outcomes, FALSE)
                  ELSE [svc EXCEPT !.attempts = outcomes]
    /\ unchangedRest

\* initialize_model with max_retries = 0: range(0) is empty; return None
NoAttempt ==
    /\ Initializing
    /\ svc.max_retries = 0
    /\ svc' = Returns(<<>>, FALSE)
    /\ unchangedRest

\* after the loop over PREFERRED_MODELS: RuntimeError when apps is empty,
\* else the service starts serving
FinishStartup ==
    /\ svc.phase = "init"
    /\ svc.k > Len(svc.preferred)
    /\ svc' = [svc EXCEPT !.phase = IF svc.apps = <<>> THEN "failed" ELSE "serving"]
    /\ unchangedRest

\* POST /create-profile
PostCreateProfile ==
    /\ svc.phase = "serving"
    /\ svc.reply = NoReply
    /\ \E upload \in Uploads :
          svc' = [svc EXCEPT !.reply = create_profile(svc.apps, upload)]
    /\ unchangedRest

\* POST /compare-faces
PostCompareFaces ==
    /\ svc.phase = "serving"
    /\ svc.reply = NoReply
    /\ \E upload1, upload2 \in CompareUploads :
          svc' = [svc EXCEPT !.reply = compare_faces(svc.apps, upload1, upload2)]
    /\ unchangedRest

\* get_embeddings(img_np) called with a decoded image once the models are
\* initialized; the reply records the mapping returned or the error raised
CallGetEmbeddings ==
    /\ svc.phase = "serving"
    /\ svc.reply = NoReply
    /\ \E upload \in ImageUploads :
          LET got == get_embeddings(svc.apps, upload)
          IN  svc' = [svc EXCEPT !.reply =
                        [NoReply EXCEPT !.endpoint = "get_embeddings", !.file1 = upload,
                                        !.detail = got.raised, !.embeddings = got.embs]]
    /\ unchangedRest

\* PREFERRED_MODELS as configured, ["buffalo_l"], and longer lists
PreferredLists ==
    {SubSeq(<<"buffalo_l", "buffalo_s", "antelopev2">>, 1, n) :
        n \in 1..(IF MaxModels < 3 THEN MaxModels ELSE 3)}

\* the import of src/multiple.py begins; start-up calls initialize_model with
\* the default max_retries = 2, other values are those of further callers
InitMulti ==
    /\ store = <<>>
    /\ now = 0
    /\ req = [c \in Clients |-> IdleFrame]
    /\ created = <<>>
    /\ config = [SIMILARITY_THRESHOLD |-> DefaultThreshold]
    /\ call = NoCall
    /\ boot = [count |-> 0, dropped |-> <<>>]
    /\ \E preferred \in PreferredLists, max_retries \in 0..MaxRetries :
          svc = [NoService EXCEPT !.phase = "init", !.preferred = preferred,
                                  !.max_retries = max_retries, !.k = 1]

NextMulti ==
    \/ AttemptSucceeds
    \/ AttemptFails
    \/ NoAttempt
    \/ FinishStartup
    \/ PostCreateProfile
    \/ PostCompareFaces
    \/ CallGetEmbeddings

SpecMulti == InitMulti /\ [][NextMulti]_vars


----------------------------------------------------------------------------
(* Claims about the similarity functions, checked under SpecPure *)

\* score < n/d for the score num / sqrt(densq), densq > 0
ScoreBelow(score, th) ==
    LET l == score.num * th[2]
        r == th[1]
    IN  IF r > 0
        THEN l < 0 \/ l * l < r * r * score.densq
        ELSE l < 0 /\ l * l > r * r * score.densq

NonZeroPair == NormSq(call.u) # 0 /\ NormSq(call.v) # 0
SameLength == Len(call.u) = Len(call.v)

\* C1: verify_faces on equal-length non-zero embeddings returns the cosine
\* similarity as score, and is_match is true exactly when that score is not
\* below SIMILARITY_THRESHOLD; a score equal to the threshold is a match.
C1_MatchIffScoreAtLeastThreshold ==
    (call.fn = "verify_faces" /\ SameLength /\ NonZeroPair) =>
        /\ call.out.raised = ""
        /\ call.out.score.num = Dot(call.u, call.v)
        /\ call.out.score.densq = NormSq(call.u) * NormSq(call.v)
        /\ call.out.is_match <=> ~ScoreBelow(call.out.score, SIMILARITY_THRESHOLD)

\* C1 witness: a comparison whose score equals the default threshold 0.6
\* (3/5 = 9 / (5 * 3)) has been reported a match.
C1_Witness ==
    /\ call.fn = "verify_faces"
    /\ SIMILARITY_THRESHOLD = DefaultThreshold
    /\ call.u = <<3, 4>> /\ call.v = <<3, 0>>
    /\ call.out.raised = ""
    /\ 25 * call.out.score.num * call.out.score.num = 9 * call.out.score.densq
    /\ call.out.is_match

\* C2: a zero-norm probe or reference makes verify_faces and
\* cosine_similarity end in an error; no score or is_match is returned.
C2_ZeroNormIsError ==
    (call.fn \in {"verify_faces", "cosine_similarity"} /\ ~NonZeroPair) =>
        call.out.raised # ""

\* the lengths of the embeddings handed to aggregate_embeddings differ
MixedLengths(embs) == \E i, j \in 1..Len(embs) : Len(embs[i].emb) # Len(embs[j].emb)

\* C3: comparing or aggregating embeddings of unequal length ends in an
\* error, whatever the lengths; no score and no fused vector is returned.
C3_UnequalLengthsRejected ==
    /\ (call.fn \in {"verify_faces", "cosine_similarity"} /\ ~SameLength) =>
           call.out.raised # ""
    /\ (call.fn = "aggregate_embeddings" /\ MixedLengths(call.embs)) =>
           call.out.raised # ""

----------------------------------------------------------------------------
(* Claims about the REST application, checked under Spec *)

IsCreate(f) == f.endpoint = "create_profile"
IsVerify(f) == f.endpoint = "verify_face"
Answered(f) == f.pc = "done"

\* the step answers client c's request
Answers(c) == ~Answered(req[c]) /\ Answered(req'[c])
\* the step serves a request of client c that arrives in it
Arrives(c) == Settled(c) /\ req'[c] # req[c]

C5_UnknownIdIs404 ==
    /\ [][\A c \in Clients :
            (Arrives(c) /\ IsVerify(req'[c]) /\ req'[c].profile_id \notin StoredIds)
            => /\ Answered(req'[c])
               /\ req'[c].response.status = 404
               /\ ~req'[c].decoded /\ req'[c].calls = 0]_vars
    /\ [](\A c \in Clients :
            (IsVerify(req[c]) /\ (req[c].decoded \/ req[c].calls > 0))
            => req[c].profile.id = req[c].profile_id /\ req[c].profile_id \in StoredIds)

\* C5 witness: with a profile stored, a verify of a face image against an
\* id that is not stored was answered 404.
C5_Witness ==
    \E c \in Clients :
        /\ IsVerify(req[c]) /\ Answered(req[c])
        /\ req[c].file \in FaceFiles
        /\ store # <<>> /\ req[c].profile_id \notin StoredIds
        /\ req[c].response.status = 404

CreatedWith(id) == {created[i] : i \in {j \in 1..Len(created) : created[j].id = id}}

\* C7: a get request is answered with the record the create returned for
\* that id (id, description, embedding, created_at) exactly when a profile
\* with that id is stored, and 404 otherwise.
C7_GetReturnsStoredRecord ==
    [][\A c \in Clients :
         (Arrives(c) /\ req'[c].endpoint = "get_profile") =>
            IF req'[c].profile_id \in StoredIds
            THEN /\ req'[c].response.status = 200
                 /\ req'[c].response.body = "ProfileRead"
                 /\ req'[c].response.profile.id = req'[c].profile_id
                 /\ req'[c].response.profile \in CreatedWith(req'[c].profile_id)
            ELSE req'[c].response.status = 404]_vars

\* C7 witness: a get of the second profile created was answered with it.
C7_Witness ==
    \E c \in Clients :
        /\ req[c].endpoint = "get_profile" /\ Answered(req[c])
        /\ Len(created) = 2
        /\ req[c].response.status = 200
        /\ req[c].response.profile = created[2]

\* the number of records of a page: min(limit, n - skip), at least 0
PageLen(n, skip, limit) ==
    IF n <= skip THEN 0 ELSE IF n - skip < limit THEN n - skip ELSE limit

C9_IdsUnique ==
    /\ \A i, j \in 1..Len(created) : created[i].id = created[j].id => i = j
    /\ \A i, j \in 1..Len(store) : store[i].id = store[j].id => i = j
    /\ \A c, d \in Clients :
          (c # d /\ IsCreate(req[c]) /\ IsCreate(req[d])
             /\ req[c].response.status = 200 /\ req[d].response.status = 200)
          => req[c].response.profile.id # req[d].response.profile.id

\* C9 witness: two creates overlapped (the one that built its Profile later
\* committed first) and both were answered 200.
C9_Witness ==
    \E c, d \in Clients :
        /\ c # d
        /\ IsCreate(req[c]) /\ IsCreate(req[d])
        /\ req[c].response.status = 200 /\ req[d].response.status = 200
        /\ req[c].response.profile.id < req[d].response.profile.id
        /\ req[c].response.profile.created_at > req[d].response.profile.created_at

\* C10: a stored profile is never removed or changed, and a step of a get,
\* list or verify request leaves the store unchanged.
C10_ProfilesWriteOnce ==
    [][/\ Len(store') >= Len(store)
       /\ \A i \in 1..Len(store) : store'[i] = store[i]
       /\ \A c \in Clients :
             (req'[c] # req[c]
                /\ req'[c].endpoint \in {"get_profile", "list_profiles", "verify_face"})
             => store' = store]_vars

\* C10 witness: a verify against a stored profile of another face was
\* answered with a result, and the profile is still stored as created.
C10_Witness ==
    \E c \in Clients :
        /\ IsVerify(req[c]) /\ Answered(req[c])
        /\ req[c].response.body = "VerificationResult"
        /\ req[c].embedding # req[c].profile.embedding
        /\ req[c].profile \in {store[i] : i \in 1..Len(store)}
        /\ store = created

----------------------------------------------------------------------------
(* Claims about aggregate_embeddings, checked under SpecPure *)

IsAggregate == call.fn = "aggregate_embeddings"

\* the weight the caller gave for a model, as an integer: 1 for every model
\* when weights is omitted (any common positive weight renormalizes alike),
\* 0 for a model the mapping does not name
GivenWeight(name) ==
    IF ~call.weights.given THEN 1
    ELSE IF name \in DOMAIN call.weights.w THEN call.weights.w[name][1] ELSE 0

RECURSIVE GivenTotalFrom(_)
\* the sum of the given weights over the models present from position k on
GivenTotalFrom(k) ==
    IF k > Len(call.embs) THEN 0
    ELSE GivenWeight(call.embs[k].name) + GivenTotalFrom(k + 1)

GivenTotal == GivenTotalFrom(1)

RECURSIVE WeightedComponentFrom(_, _)
\* the sum over the models present of given weight times component i
WeightedComponentFrom(k, i) ==
    IF k > Len(call.embs) THEN 0
    ELSE GivenWeight(call.embs[k].name) * call.embs[k].emb[i]
         + WeightedComponentFrom(k + 1, i)

RECURSIVE ComponentSumFrom(_, _)
\* the plain sum over the models present of component i
ComponentSumFrom(k, i) ==
    IF k > Len(call.embs) THEN 0
    ELSE call.embs[k].emb[i] + ComponentSumFrom(k + 1, i)

\* the call was given at least one embedding, all of one length
EqualLengthInput == IsAggregate /\ call.embs # <<>> /\ ~MixedLengths(call.embs)

\* C11: aggregate_embeddings returns a fused vector only for a non-empty
\* mapping whose weights over the models present do not sum to zero; an
\* empty mapping raises, and so does a weights mapping that sums to zero over
\* the models present, one naming none of them included.
C11_EmptyOrZeroWeightRaises ==
    IsAggregate =>
        /\ call.embs = <<>> => call.out.raised = "ValueError"
        /\ GivenTotal = 0 => call.out.raised = "ValueError"
        /\ call.out.raised = "" =>
              /\ call.embs # <<>>
              /\ GivenTotal # 0
              /\ call.out.agg # <<>>

\* C11 witness: an aggregation of two models under weights that name only a
\* third model, with a positive weight, has raised.
C11_Witness ==
    /\ IsAggregate
    /\ Len(call.embs) = 2
    /\ call.weights.given
    /\ DOMAIN call.weights.w # {}
    /\ DOMAIN call.weights.w \cap Names(call.embs) = {}
    /\ \A n \in DOMAIN call.weights.w : call.weights.w[n][1] > 0
    /\ call.out.raised = "ValueError"

\* the caller gave one and the same positive weight for every model present
UniformPositiveWeights ==
    /\ call.weights.given
    /\ Names(call.embs) \subseteq DOMAIN call.weights.w
    /\ \A m, n \in Names(call.embs) :
          call.weights.w[m] = call.weights.w[n] /\ call.weights.w[m][1] > 0

\* the fused vector is the element-wise mean of the embeddings given
IsMean ==
    /\ call.out.raised = ""
    /\ Len(call.out.agg) = Len(call.embs[1].emb)
    /\ \A i \in 1..Len(call.out.agg) :
          call.out.agg[i] = Ratio(ComponentSumFrom(1, i), Len(call.embs))

\* C12: with weights omitted, aggregate_embeddings returns the element-wise
\* mean of the N equal-length embeddings given; one identical positive weight
\* for every model gives that same mean; a single model's embedding comes
\* back unchanged.
C12_OmittedWeightsGiveMean ==
    EqualLengthInput =>
        /\ ~call.weights.given => IsMean
        /\ UniformPositiveWeights => IsMean
        /\ (Len(call.embs) = 1 /\ ~call.weights.given) =>
              call.out.agg = [i \in 1..Len(call.embs[1].emb) |->
                                 <<call.embs[1].emb[i], 1>>]

\* C12 witness: two different embeddings of equal length were aggregated
\* under the weight 2 for each and the call returned.
C12_Witness ==
    /\ EqualLengthInput
    /\ Len(call.embs) = 2
    /\ call.embs[1].emb # call.embs[2].emb
    /\ UniformPositiveWeights
    /\ \A m \in Names(call.embs) : call.weights.w[m] = <<2, 1>>
    /\ call.out.raised = ""

RECURSIVE EffectiveSumFrom(_)
\* the sum of the effective weights of the models present from position k on
EffectiveSumFrom(k) ==
    IF k > Len(call.embs) THEN <<0, 1>>
    ELSE RatAdd(call.nw[call.embs[k].name], EffectiveSumFrom(k + 1))

\* C13: for a non-empty set of equal-length embeddings and weights whose sum
\* over the models present is not zero, the effective weights are the given
\* ones divided by that sum: they sum to 1, a present model the mapping does
\* not name has effective weight 0, weights for absent models play no part,
\* and the result is the sum over the models present of effective weight
\* times embedding.
C13_WeightsRenormalized ==
    (EqualLengthInput /\ GivenTotal # 0) =>
        /\ call.out.raised = ""
        /\ DOMAIN call.nw = Names(call.embs)
        /\ \A m \in Names(call.embs) : call.nw[m] = Ratio(GivenWeight(m), GivenTotal)
        /\ EffectiveSumFrom(1) = <<1, 1>>
        /\ \A m \in Names(call.embs) :
              (call.weights.given /\ m \notin DOMAIN call.weights.w) =>
                  call.nw[m] = <<0, 1>>
        /\ Len(call.out.agg) = Len(call.embs[1].emb)
        /\ \A i \in 1..Len(call.out.agg) :
              call.out.agg[i] = Ratio(WeightedComponentFrom(1, i), GivenTotal)

\* C13 witness: two models were aggregated under a mapping that names one of
\* them with weight 2 and a model that is not present, and the call returned.
C13_Witness ==
    /\ EqualLengthInput
    /\ Len(call.embs) = 2
    /\ call.weights.given
    /\ Cardinality(DOMAIN call.weights.w \cap Names(call.embs)) = 1
    /\ DOMAIN call.weights.w \ Names(call.embs) # {}
    /\ \E m \in DOMAIN call.weights.w \cap Names(call.embs) :
          call.weights.w[m] = <<2, 1>>
    /\ call.out.raised = ""

----------------------------------------------------------------------------
(* Self-match *)

\* the score is exactly 1: a positive numerator whose square is densq
ScoreIsOne(score) == score.num > 0 /\ score.num * score.num = score.densq

\* C14: the cosine similarity of a non-zero embedding with itself is 1 and
\* verify_faces(e, e) reports a match at the threshold 0.6 (at every
\* threshold up to 1); so a verify request whose probe embedding equals the
\* stored profile's is answered with is_match true.
C14_SelfMatch ==
    /\ (call.fn \in {"verify_faces", "cosine_similarity"}
          /\ call.u = call.v /\ NormSq(call.u) # 0) =>
            /\ call.out.raised = ""
            /\ ScoreIsOne(call.out.score)
            /\ (call.fn = "verify_faces"
                  /\ SIMILARITY_THRESHOLD[1] <= SIMILARITY_THRESHOLD[2]) =>
                    call.out.is_match
    /\ \A c \in Clients :
          (IsVerify(req[c]) /\ Answered(req[c]) /\ req[c].embedding # <<>>
             /\ req[c].embedding = req[c].profile.embedding) =>
              /\ req[c].response.status = 200
              /\ req[c].response.is_match
              /\ ScoreIsOne(req[c].response.score)

\* C14 witness: verify_faces compared a two-component embedding with itself
\* at the default threshold 0.6 and reported a match.
C14_Witness ==
    /\ call.fn = "verify_faces"
    /\ SIMILARITY_THRESHOLD = DefaultThreshold
    /\ call.u = call.v /\ Len(call.u) = 2 /\ NormSq(call.u) = 25
    /\ call.out.raised = ""
    /\ call.out.is_match

\* a verify request for the profile enrolled from the same image was answered
\* with a match
SameImageVerified ==
    \E c \in Clients :
        /\ IsVerify(req[c]) /\ Answered(req[c])
        /\ req[c].embedding = req[c].profile.embedding
        /\ req[c].response.status = 200 /\ req[c].response.is_match

----------------------------------------------------------------------------
(* The clients' verification path *)

\* the request posts a face image to the clients' verification path
ClientVerify(f) ==
    /\ f.line # ""
    /\ LineOf(f).method = "POST" /\ LineOf(f).path = ClientVerifyPath
    /\ f.file \in FaceFiles

\* C15: a POST of an image to /api/v1/profiles/verify/{profile_id}, for the
\* id of a stored profile, is served by verify_face and is answered 200 with
\* a VerificationResult (is_match and score).
C15_ClientVerifyPathServed ==
    [][\A c \in Clients :
          /\ (Arrives(c) /\ ClientVerify(req'[c])
                 /\ req'[c].profile_id \in StoredIds) => IsVerify(req'[c])
          /\ ((Arrives(c) \/ Answers(c)) /\ Answered(req'[c])
                 /\ ClientVerify(req'[c]) /\ req'[c].profile_id \in StoredIds) =>
                /\ req'[c].response.status = 200
                /\ req'[c].response.body = "VerificationResult"]_vars

----------------------------------------------------------------------------
(* Embedding lengths, request life cycle *)

\* C17: every 200 response of a create carries an id, a description and an
\* embedding of the provider's fixed length; every stored profile has an
\* embedding of that length; so a verify compares a probe and a stored
\* embedding of equal length and is never answered 500.
C17_EmbeddingsHaveProviderLength ==
    /\ \A c \in Clients :
          (IsCreate(req[c]) /\ Answered(req[c]) /\ req[c].response.status = 200) =>
              /\ req[c].response.profile.id >= 1
              /\ req[c].response.profile.description # ""
              /\ Len(req[c].response.profile.embedding) = EmbeddingLength
    /\ \A i \in 1..Len(store) : Len(store[i].embedding) = EmbeddingLength
    /\ \A c \in Clients :
          /\ (IsVerify(req[c]) /\ req[c].pc = "compare") =>
                /\ Len(req[c].embedding) = EmbeddingLength
                /\ Len(req[c].profile.embedding) = EmbeddingLength
          /\ (IsVerify(req[c]) /\ Answered(req[c])) => req[c].response.status # 500

\* C17 witness: one client's create was answered 200 and the other client's
\* verify against the stored profile has been answered with a result.
C17_Witness ==
    /\ store # <<>>
    /\ \E c \in Clients :
          IsCreate(req[c]) /\ Answered(req[c]) /\ req[c].response.status = 200
    /\ \E c \in Clients :
          /\ IsVerify(req[c]) /\ Answered(req[c])
          /\ req[c].response.body = "VerificationResult"
          /\ Len(req[c].embedding) = EmbeddingLength

\* the handler's position in its sequence of steps
Rank(pc) ==
    CASE pc = "idle" -> 0
      [] pc = "decode" -> 1
      [] pc \in {"analyze", "extract"} -> 2
      [] pc \in {"persist", "compare"} -> 3
      [] pc = "done" -> 4

\* a step of client c's handler after the arrival of its request
HandlerStep(c) ==
    \/ CreateDecode(c) \/ CreateAnalyze(c) \/ CreatePersist(c)
    \/ VerifyDecode(c) \/ VerifyExtract(c) \/ VerifyCompare(c)

\* a create or verify request being served
InFlight(c) == (IsCreate(req[c]) \/ IsVerify(req[c])) /\ ~Settled(c)

\* C18: a create or verify request goes through decode, embedding
\* extraction, then persist or compare, each step taking it forward; while it
\* is unanswered its next step can be taken, so it ends, and it ends in one
\* response, a success or an error; the provider is called at most once per
\* request, and a call that finds no face ends the request.
C18_OnePassNoRetry ==
    /\ [](\A c \in Clients :
            /\ req[c].calls <= 1
            /\ InFlight(c) => ENABLED HandlerStep(c)
            /\ Answered(req[c]) <=> req[c].response # NoResponse
            /\ (Answered(req[c]) /\ (IsCreate(req[c]) \/ IsVerify(req[c]))) =>
                  \/ req[c].response.status = 200
                       /\ req[c].response.body \in {"ProfileRead", "VerificationResult"}
                  \/ req[c].response.status \in {400, 404, 500}
                       /\ req[c].response.body = "error")
    /\ [][\A c \in Clients :
            /\ (InFlight(c) /\ req'[c] # req[c]) =>
                  /\ Rank(req'[c].pc) > Rank(req[c].pc)
                  /\ req'[c].pc # "done" => Rank(req'[c].pc) = Rank(req[c].pc) + 1
            /\ (InFlight(c) /\ req'[c].calls > req[c].calls
                  /\ ProviderFaces(req[c].file) = <<>>) =>
                  /\ Answered(req'[c])
                  /\ req'[c].response.status = 400]_vars

\* C18 witness: a create that called the provider once on an image without a
\* face has been answered 400, and a verify that called it once has been
\* answered with a result.
C18_Witness ==
    /\ \E c \in Clients :
          /\ IsCreate(req[c]) /\ Answered(req[c]) /\ req[c].file = "blank"
          /\ req[c].calls = 1 /\ req[c].response.status = 400
    /\ \E c \in Clients :
          /\ IsVerify(req[c]) /\ Answered(req[c]) /\ req[c].calls = 1
          /\ req[c].response.body = "VerificationResult"

----------------------------------------------------------------------------
(* Restarts, checked under SpecRestart *)

\* the step is a start-up
StartsUp == boot' # boot

\* the profiles the last start-up dropped, and their ids
Lost == {boot.dropped[i] : i \in 1..Len(boot.dropped)}
LostIds == {p.id : p \in Lost}

IsGet(f) == f.endpoint = "get_profile"

\* C19 as stated: every start-up leaves the store empty, and a GET for the id
\* of a profile created before a restart is answered 404 after it.
C19_LostIdGets404 ==
    /\ [][StartsUp => store' = <<>>]_vars
    /\ [][\A c \in Clients :
            (Arrives(c) /\ IsGet(req'[c]) /\ req'[c].profile_id \in LostIds) =>
                req'[c].response.status = 404]_vars

\* C19 amended: every start-up leaves the store empty, whatever it held; the
\* store never holds a profile the last start-up dropped, a GET never returns
\* one, and a GET for the id of such a profile is answered 404 as long as no
\* later create was given that id (ids start again from 1).
C19_StartupDropsProfiles ==
    /\ [][StartsUp => (store' = <<>> /\ boot'.dropped = store
                        /\ NextId(store') = 1)]_vars
    /\ [](\A i \in 1..Len(store) : store[i] \notin Lost)
    /\ [][\A c \in Clients :
            (Arrives(c) /\ IsGet(req'[c])) =>
                /\ req'[c].response.status = 200 =>
                      req'[c].response.profile \notin Lost
                /\ (req'[c].profile_id \in LostIds \ StoredIds) =>
                      req'[c].response.status = 404]_vars

\* C19 witness: after a restart that dropped a stored profile, a GET for
\* that profile's id was answered 404.
C19_Witness ==
    /\ boot.count >= 1
    /\ store = <<>>
    /\ LostIds # {}
    /\ IsGet(req[Restarter]) /\ Answered(req[Restarter])
    /\ req[Restarter].profile_id \in LostIds
    /\ req[Restarter].response.status = 404

----------------------------------------------------------------------------
(* Claims about the multi-model service, checked under SpecMulti *)

\* the upload decodes and no initialized model detects a face in it, so
\* get_embeddings raises and analyze_face raises its 422
AnalysisFails(upload) ==
    /\ upload.kind = "image"
    /\ \A i \in 1..Len(svc.apps) : upload.sees[svc.apps[i]] # "face"

\* C16: when face analysis fails (no model detects a face), /create-profile
\* and /compare-faces answer with the status 422 that analyze_face raised,
\* not with another status.
C16_AnalysisFailureIs422 ==
    /\ (svc.reply.endpoint = "create_profile" /\ AnalysisFails(svc.reply.file1)) =>
          svc.reply.status = 422
    /\ (svc.reply.endpoint = "compare_faces"
          /\ svc.reply.file1.kind = "image" /\ svc.reply.file2.kind = "image"
          /\ (AnalysisFails(svc.reply.file1) \/ AnalysisFails(svc.reply.file2))) =>
          svc.reply.status = 422
    /\ svc.reply.analysis = 422 => svc.reply.status = 422

\* every attempt but the last one listed failed
OnlyLastMaySucceed(outcomes) == \A j \in 1..(Len(outcomes) - 1) : ~outcomes[j]

AllFailed(outcomes) == \A j \in 1..Len(outcomes) : ~outcomes[j]

RECURSIVE ModelsReturned(_)
\* the names, in order, of the models initialize_model returned
ModelsReturned(tries) ==
    IF tries = <<>> THEN <<>>
    ELSE (IF Head(tries).model THEN <<Head(tries).name>> ELSE <<>>)
         \o ModelsReturned(Tail(tries))

\* how far start-up has come: models done, then attempts at the current one
Progress(s) == s.k * (s.max_retries + 1) + Len(s.attempts)

StartupStep == AttemptSucceeds \/ AttemptFails \/ NoAttempt \/ FinishStartup

\* C20: initialize_model makes at most max_retries attempts, one after
\* another, stops at the first that succeeds and returns that model, returns
\* None exactly when max_retries attempts failed (none, for max_retries = 0),
\* and always returns; start-up leaves a model that returned None out of
\* apps and raises RuntimeError when apps is empty, so a request is served
\* only with at least one initialized model.
C20_BoundedRetriesNonEmptyApps ==
    /\ [](/\ \A i \in 1..Len(svc.tries) :
               LET t == svc.tries[i]
               IN  /\ Len(t.outcomes) <= svc.max_retries
                   /\ OnlyLastMaySucceed(t.outcomes)
                   /\ t.model <=> (t.outcomes # <<>> /\ t.outcomes[Len(t.outcomes)])
                   /\ ~t.model <=> (Len(t.outcomes) = svc.max_retries
                                     /\ AllFailed(t.outcomes))
                   /\ t.name = svc.preferred[i]
          /\ Len(svc.attempts) <= svc.max_retries /\ AllFailed(svc.attempts)
          /\ svc.apps = ModelsReturned(svc.tries)
          /\ svc.phase \in {"serving", "failed"} => Len(svc.tries) = Len(svc.preferred)
          /\ svc.phase = "serving" => svc.apps # <<>>
          /\ svc.phase = "failed" => svc.apps = <<>>
          /\ svc.reply # NoReply => (svc.phase = "serving" /\ svc.apps # <<>>)
          /\ svc.phase = "init" => ENABLED StartupStep
          /\ Progress(svc) <= (Len(svc.preferred) + 1) * (svc.max_retries + 1))
    /\ [][(svc.phase = "init" /\ svc' # svc) =>
            (svc'.phase # "init" \/ Progress(svc') > Progress(svc))]_vars

\* C20 witness: with max_retries = 2, the first model returned None after
\* two failed attempts, the second was returned by its second attempt, and
\* the service has answered a request with the second model alone.
C20_Witness ==
    /\ svc.max_retries = 2
    /\ Len(svc.tries) = 2
    /\ svc.tries[1].outcomes = <<FALSE, FALSE>> /\ ~svc.tries[1].model
    /\ svc.tries[2].outcomes = <<FALSE, TRUE>> /\ svc.tries[2].model
    /\ svc.apps = <<svc.preferred[2]>>
    /\ svc.phase = "serving"
    /\ svc.reply.status = 200

\* C21: the decision of /compare-faces agrees with verify's rule: for every
\* aggregated score, same_person_likely is true exactly when the score is at
\* least the configured threshold (default 0.6), a score equal to the
\* threshold included.
C21_CompareAgreesWithVerifyRule ==
    (svc.reply.endpoint = "compare_faces" /\ svc.reply.status = 200) =>
        (svc.reply.same_person_likely <=>
            ScoreGE(svc.reply.score, SIMILARITY_THRESHOLD))

\* the initialized models that detect a face in the image of the call
Initialized == {svc.apps[i] : i \in 1..Len(svc.apps)}
Detecting == {name \in Initialized : svc.reply.file1.sees[name] = "face"}
ReturnedNames == {svc.reply.embeddings[i].name : i \in 1..Len(svc.reply.embeddings)}
GetEmbeddingsCalled == svc.reply.endpoint = "get_embeddings"

\* C22: get_embeddings queries every initialized model: a model that raises
\* or detects no face is skipped and the models after it are still queried;
\* the mapping returned holds exactly the models that detected a face, each
\* once with its first face's embedding; the function raises exactly when no
\* model detected a face, so it never returns an empty mapping.
C22_GetEmbeddingsSkipsFailures ==
    GetEmbeddingsCalled =>
        /\ (svc.reply.detail = "ValueError") <=> (Detecting = {})
        /\ svc.reply.detail \in {"", "ValueError"}
        /\ svc.reply.detail = "ValueError" => svc.reply.embeddings = <<>>
        /\ svc.reply.detail = "" =>
              /\ svc.reply.embeddings # <<>>
              /\ ReturnedNames = Detecting
              /\ Len(svc.reply.embeddings) = Cardinality(Detecting)
              /\ \A i \in 1..Len(svc.reply.embeddings) :
                    svc.reply.embeddings[i].emb =
                        MultiEmbedding(svc.reply.file1.id, svc.reply.embeddings[i].name)

\* two models initialized, the first raises on the image, the second detects
\* a face, and the call returned the second model's embedding alone
C22_Witness ==
    /\ GetEmbeddingsCalled
    /\ Len(svc.apps) = 2
    /\ svc.reply.file1.sees[svc.apps[1]] = "error"
    /\ svc.reply.file1.sees[svc.apps[2]] = "face"
    /\ svc.reply.detail = ""
    /\ ReturnedNames = {svc.apps[2]}

====
